---------------------------- MODULE Spec2Model ----------------------------
(***************************************************************************)
(* Trial engine of the visual-working-memory trainer (the Page component). *)
(*                                                                         *)
(* The component is a React function component.  Every render creates new  *)
(* closures (finishTrial, startTrial, handleResponse, onKey) over the      *)
(* state values of that render.  A timer callback keeps the closure of the *)
(* render in which startTrial / finishTrial was called; the keydown        *)
(* listener keeps the closure of the last render in which one of the       *)
(* dependencies of its effect changed; the buttons use the last render.    *)
(* The model keeps these closures as explicit environments (Env records).  *)
(*                                                                         *)
(* An event handler or timer callback, the re-render it causes and the     *)
(* effects of that render are one atomic step.                             *)
(*                                                                         *)
(* Time is relative: every pending timer carries its remaining delay and   *)
(* the reaction-time origin is kept as sinceTestStart, the value of        *)
(* performance.now() - testStartRef.current.                               *)
(*                                                                         *)
(* Not modelled: drawing, audio, the toast text and its timers.           *)
(***************************************************************************)
EXTENDS Integers, Sequences, FiniteSets, TLC

(* ------------------------------ Config ------------------------------- *)
FIX_MS == 500
PRE_BLANK_MS == 500
MEM_MS == 500
ISI_MS == 800
RESP_WINDOW_MS == 2500
SAC_ON_MS == 350
SAC_BLANK_MS == 450
BLOCK_SIZE == 20
SET_MIN == 2
SET_MAX == 10
SP_MIN == 1
SP_MAX == 7
POINTS_CORRECT == 10
FAST_BONUS_MS == 600
FAST_BONUS == 5
NUM_SET_MIN == 1
NUM_COUNT_MIN == 4
NUM_SET_MAX == 12
NUM_COUNT_MAX == 10
NUM_MEM_MS == 200
NUM_MIN_SEP == 28
CONT_MS == 40
windowSize == 16

(* ------------------------------ Bounds ------------------------------- *)
\* events explored per page session: finishTrial calls (responses and
\* timeouts) and clicks or keys for mode, sub-mode, help, pause and reset
MaxEvents == 2
\* finishTrial calls by a closure in numerosity mode
MaxNumScored == 1
\* events explored per page session in the pause specification
MaxPauseEvents == 4
\* counted events and finishTrial calls per numerosity session (SpecNum)
MaxNumEvents == 2
MaxNumTrials == 1
\* sinceTestStart saturates here; every threshold the code compares a
\* reaction time with (600, 900, 1150, 2500) lies below it
AgeCap == 2600

\* delays, in ms, after which the user may act (besides timer expiries)
Delays == {600}

Modes == {"orientation", "color", "spatial", "numerosity", "saccade"}
Submodes == {"enumerate", "compare"}

Min(a, b) == IF a <= b THEN a ELSE b
Max(a, b) == IF a >= b THEN a ELSE b

VARIABLES
  st,        \* the React state of the last render
  refs,      \* the useRef cells
  timers,    \* pending setTimeout callbacks, in scheduling order
  kenv,      \* closure of the registered keydown listener
  store,     \* localStorage
  hist       \* history: what the last finishTrial call did, and counters

vars == <<st, refs, timers, kenv, store, hist>>

(* ----------------------------- Closures ------------------------------ *)
\* the state values that finishTrial / startTrial / onKey read from their
\* closure (help, paused and phase are dependencies of the listener effect
\* and props of the buttons, so handlers always see their current value)
Env(s) ==
  [points |-> s.points, mode |-> s.mode,
   numerositySubmode |-> s.numerositySubmode, setSize |-> s.setSize,
   barTotal |-> s.barTotal, barCorrect |-> s.barCorrect,
   numAnchorSetSize |-> s.numAnchorSetSize,
   numCompareDelta |-> s.numCompareDelta,
   numExposureMs |-> s.numExposureMs]

\* the keydown effect re-registers the listener when a dependency changed
KeyDepsChanged(s, t) ==
  \/ s.phase # t.phase \/ s.help # t.help \/ s.paused # t.paused
  \/ s.points # t.points \/ s.setSize # t.setSize
  \/ s.barTotal # t.barTotal \/ s.barCorrect # t.barCorrect
  \/ s.mode # t.mode

KeyEnv(k, s, t) == IF KeyDepsChanged(s, t) THEN Env(t) ELSE k


(* --------------------------- localStorage ---------------------------- *)
\* an item is <<>> when the key is absent and <<v>> when it holds v;
\* numbers are stored by JSON.stringify as their decimal text, which
\* parseInt reads back; similarity is kept in hundredths
NoItem == <<>>
Item(v) == <<v>>

\* parseInt(localStorage.getItem(key) ?? "0")
getDataAsNum(sto, key) == IF sto[key] = NoItem THEN 0 ELSE sto[key][1]

EmptyStore ==
  [set_size |-> NoItem, points |-> NoItem, set_trial |-> NoItem,
   bar_total |-> NoItem, bar_correct |-> NoItem, mode |-> NoItem,
   blur_on |-> NoItem, sac_total |-> NoItem, sac_hits |-> NoItem,
   numerosity_submode |-> NoItem, num_exposure_ms |-> NoItem,
   num_min_sep |-> NoItem, num_similarity01 |-> NoItem,
   num_anchor_setsize |-> NoItem, num_compare_delta |-> NoItem]

\* the state of the first render (useState initial values)
InitialState ==
  [setSize |-> 1, trial |-> 0, points |-> 0, help |-> TRUE,
   paused |-> FALSE, barCorrect |-> 0, barTotal |-> 0, phase |-> "idle",
   mode |-> "orientation", blurOn |-> TRUE, sacTotal |-> 0, sacHits |-> 0,
   numerositySubmode |-> "enumerate", numExposureMs |-> NUM_MEM_MS, numMinSepPx |-> NUM_MIN_SEP,
   numSimilarity01 |-> 20, numAnchorSetSize |-> 5, numCompareDelta |-> 2]

\* the load effect, run once after the first render
Load(sto) ==
  LET e == getDataAsNum(sto, "num_exposure_ms")
      sep == getDataAsNum(sto, "num_min_sep")
      anc == getDataAsNum(sto, "num_anchor_setsize")
      delta == getDataAsNum(sto, "num_compare_delta")
  IN [InitialState EXCEPT
       !.setSize = IF getDataAsNum(sto, "set_size") = 0 THEN 1
                   ELSE getDataAsNum(sto, "set_size"),
       !.points = getDataAsNum(sto, "points"),
       !.trial = getDataAsNum(sto, "set_trial"),
       !.barTotal = getDataAsNum(sto, "bar_total"),
       !.barCorrect = getDataAsNum(sto, "bar_correct"),
       !.mode = IF sto.mode # NoItem /\ sto.mode[1] \in Modes
                THEN sto.mode[1] ELSE @,
       !.blurOn = IF sto.blur_on \in {Item("0"), Item("1")}
                  THEN sto.blur_on = Item("1") ELSE @,
       !.sacTotal = Max(0, getDataAsNum(sto, "sac_total")),
       !.sacHits = Max(0, getDataAsNum(sto, "sac_hits")),
       !.numerositySubmode =
          IF sto.numerosity_submode # NoItem
             /\ sto.numerosity_submode[1] \in Submodes
          THEN sto.numerosity_submode[1] ELSE @,
       !.numExposureMs = IF e > 50 THEN e ELSE @,
       !.numMinSepPx = IF sep >= 16 THEN sep ELSE @,
       !.numSimilarity01 =
          IF sto.num_similarity01 # NoItem
             /\ sto.num_similarity01[1] >= 0
             /\ sto.num_similarity01[1] <= 100
          THEN sto.num_similarity01[1] ELSE @,
       !.numAnchorSetSize =
          IF anc >= NUM_SET_MIN /\ anc <= NUM_SET_MAX THEN anc ELSE @,
       !.numCompareDelta = IF delta >= 1 /\ delta <= 3 THEN delta ELSE @]

\* the effect that persists the mode (dependencies: mode, blurOn)
PersistMode(sto, t) ==
  [sto EXCEPT !.mode = Item(t.mode),
              !.blur_on = Item(IF t.blurOn THEN "1" ELSE "0"),
              !.numerosity_submode =
                 IF t.mode = "numerosity" THEN Item(t.numerositySubmode)
                 ELSE @]

\* the effect that persists the session values
PersistSession(sto, t) ==
  [sto EXCEPT !.set_size = Item(t.setSize), !.points = Item(t.points),
              !.set_trial = Item(t.trial), !.bar_total = Item(t.barTotal),
              !.bar_correct = Item(t.barCorrect),
              !.sac_total = Item(t.sacTotal), !.sac_hits = Item(t.sacHits),
              !.num_exposure_ms = Item(t.numExposureMs),
              !.num_min_sep = Item(t.numMinSepPx),
              !.num_similarity01 = Item(t.numSimilarity01),
              !.num_anchor_setsize = Item(t.numAnchorSetSize),
              !.num_compare_delta = Item(t.numCompareDelta)]

SessionDepsChanged(s, t) ==
  \/ s.setSize # t.setSize \/ s.points # t.points \/ s.trial # t.trial
  \/ s.barTotal # t.barTotal \/ s.barCorrect # t.barCorrect
  \/ s.sacTotal # t.sacTotal \/ s.sacHits # t.sacHits
  \/ s.numExposureMs # t.numExposureMs \/ s.numMinSepPx # t.numMinSepPx
  \/ s.numSimilarity01 # t.numSimilarity01
  \/ s.numAnchorSetSize # t.numAnchorSetSize
  \/ s.numCompareDelta # t.numCompareDelta

\* the persistence effects of the render that replaces state s by state t
Persist(sto, s, t) ==
  LET a == IF s.mode # t.mode \/ s.blurOn # t.blurOn
           THEN PersistMode(sto, t) ELSE sto
  IN IF SessionDepsChanged(s, t) THEN PersistSession(a, t) ELSE a

\* storage after mounting: both effects run for the first render and again
\* for the render that shows the loaded values
MountStore(sto, t) == PersistSession(PersistMode(sto, t), t)


(* ------------------------------ Timers ------------------------------- *)
\* a pending setTimeout: remaining delay, which callback, the closure it
\* was created in, the `correct' argument captured by the continuation, and
\* whether respTimeoutRef.current holds its id
Timer(rem, cb, env, correct, tracked) ==
  [rem |-> rem, cb |-> cb, env |-> env, correct |-> correct,
   tracked |-> tracked]

\* clearTimeout(respTimeoutRef.current)
ClearResp(tm) == SelectSeq(tm, LAMBDA t : ~t.tracked)

\* respTimeoutRef.current is overwritten: the timer it named stays pending
Untrack(tm) == [i \in DOMAIN tm |-> [tm[i] EXCEPT !.tracked = FALSE]]

RemoveAt(tm, i) == [j \in 1..(Len(tm) - 1) |-> IF j < i THEN tm[j] ELSE tm[j + 1]]

(* ------------------------------ Scoring ------------------------------ *)
\* the rank table, [name, minPoints] ascending
RANKS ==
  << <<"Beginner", 0>>, <<"Novice", 200>>, <<"Competent", 600>>,
     <<"Proficient", 1200>>, <<"Expert", 2200>> >>

\* for (const [nm, t] of RANKS) if (points >= t) name = nm
RECURSIVE RankScan(_, _, _)
RankScan(i, name, points) ==
  IF i > Len(RANKS) THEN name
  ELSE RankScan(i + 1, IF points >= RANKS[i][2] THEN RANKS[i][1] ELSE name,
                points)

\* variant: a threshold is met only when exceeded
rankFor_Exceeds(points) ==
  LET met == {i \in DOMAIN RANKS : points > RANKS[i][2]}
  IN IF met = {} THEN RANKS[1][1]
     ELSE RANKS[CHOOSE i \in met : \A j \in met : j <= i][1]

rankFor(points) == RankScan(1, RANKS[1][1], points)

\* finishTrial: the rank-up toast and chord are emitted
RankUp(env, correct, rt) ==
  /\ correct
  /\ rankFor(env.points + (POINTS_CORRECT
                           + (IF rt <= FAST_BONUS_MS THEN FAST_BONUS ELSE 0)))
       # rankFor(env.points)

\* variant: the bonus threshold read as exclusive
PointsAdd_ExclusiveBonus(correct, rt) ==
  IF correct
  THEN POINTS_CORRECT + (IF rt < FAST_BONUS_MS THEN FAST_BONUS ELSE 0)
  ELSE 0

\* const add = POINTS_CORRECT + (rt <= FAST_BONUS_MS ? FAST_BONUS : 0)
PointsAdd(correct, rt) ==
  IF correct
  THEN POINTS_CORRECT + (IF rt <= FAST_BONUS_MS THEN FAST_BONUS ELSE 0)
  ELSE 0

\* variant: the award replaces the total instead of adding to it
ScorePoints_Replace(s, env, correct, rt) ==
  IF correct
  THEN [s EXCEPT !.points = PointsAdd(correct, rt), !.barCorrect = @ + 1]
  ELSE s

\* setPoints(points + add): points is the value of the closure
ScorePoints(s, env, correct, rt) ==
  IF correct
  THEN [s EXCEPT !.points = env.points + PointsAdd(correct, rt),
                 !.barCorrect = @ + 1]
  ELSE s

(* ------------------------- Adaptive controller ----------------------- *)
\* 3-up/1-down rule of the original modes: new set size and streak
StairUp(setSize) == Min(SET_MAX, setSize + 1)

\* variant: the decrement without its floor
StairDown_NoFloor(setSize) == setSize - 1

StairDown(setSize) == Max(SET_MIN, setSize - 1)

Staircase(setSize, streak, correct) ==
  IF correct
  THEN IF streak + 1 >= 3
       THEN [setSize |-> StairUp(setSize), streak |-> 0]
       ELSE [setSize |-> setSize, streak |-> streak + 1]
  ELSE [setSize |-> StairDown(setSize), streak |-> 0]

\* spatial mode only tracks the streak
SpatialStreak(streak, correct) == IF correct THEN streak + 1 ELSE 0

\* block rule of spatial mode; acc = nCorrect / BLOCK_SIZE
BlockRule(setSize, nCorrect) ==
  IF 10 * nCorrect >= 9 * BLOCK_SIZE
  THEN Min(SP_MAX, setSize + 2)
  ELSE Max(SP_MIN, setSize - 1)

\* recentOutcomesRef: push, then shift when longer than windowSize
PushOutcome(w, ok, rt) ==
  LET a == Append(w, [ok |-> ok, rt |-> rt])
  IN IF Len(a) > windowSize THEN Tail(a) ELSE a

RECURSIVE Insert(_, _)
Insert(sorted, x) ==
  IF sorted = <<>> THEN <<x>>
  ELSE IF x <= Head(sorted) THEN <<x>> \o sorted
  ELSE <<Head(sorted)>> \o Insert(Tail(sorted), x)

RECURSIVE SortRts(_)
SortRts(w) == IF w = <<>> THEN <<>> ELSE Insert(SortRts(Tail(w)), Head(w).rt)

NumCorrect(w) == Cardinality({i \in DOMAIN w : w[i].ok})

\* twice the median reaction time of the window (the window is never empty
\* when this is evaluated)
MedianRt2(w) ==
  LET arr == SortRts(w)
      mid == Len(arr) \div 2
  IN IF Len(arr) % 2 = 1 THEN 2 * arr[mid + 1] ELSE arr[mid] + arr[mid + 1]

\* acc >= targetAcc && medianRt <= fastThresh
NumGood(w) == 4 * NumCorrect(w) >= 3 * Len(w) /\ MedianRt2(w) <= 2 * 900
\* acc < targetAcc - 0.1 || medianRt > fastThresh + 250
NumBad(w) == 100 * NumCorrect(w) < 65 * Len(w) \/ MedianRt2(w) > 2 * 1150

\* variant: the exposure stepped down without its floor
NumHarder_NoFloor(s, submode) ==
  [s EXCEPT !.numExposureMs = @ - 20,
            !.numMinSepPx = Max(18, @ - 2),
            !.numSimilarity01 = Min(100, @ + 6),
            !.numAnchorSetSize = Min(NUM_COUNT_MAX - 1, @ + 1),
            !.numCompareDelta = IF submode = "compare" THEN Max(1, @ - 1) ELSE @]

NumHarder(s, submode) ==
  [s EXCEPT !.numExposureMs = Max(120, @ - 20),
            !.numMinSepPx = Max(18, @ - 2),
            !.numSimilarity01 = Min(100, @ + 6),
            !.numAnchorSetSize = Min(NUM_COUNT_MAX - 1, @ + 1),
            !.numCompareDelta = IF submode = "compare" THEN Max(1, @ - 1) ELSE @]

NumEasier(s, submode) ==
  [s EXCEPT !.numExposureMs = Min(350, @ + 20),
            !.numMinSepPx = Min(48, @ + 2),
            !.numSimilarity01 = Max(0, @ - 6),
            !.numAnchorSetSize = Max(NUM_COUNT_MIN + 1, @ - 1),
            !.numCompareDelta = IF submode = "compare" THEN Min(3, @ + 1) ELSE @]

ClampCount(n) == Max(NUM_COUNT_MIN, Min(NUM_COUNT_MAX, n))

\* the numerosity branch of finishTrial on state s with window w (already
\* holding the new outcome)
NumAdapt(s, env, w, jitter) ==
  LET a == IF NumGood(w) THEN NumHarder(s, env.numerositySubmode)
           ELSE IF NumBad(w) THEN NumEasier(s, env.numerositySubmode)
           ELSE s
  IN IF env.numerositySubmode = "enumerate"
     THEN [a EXCEPT !.setSize = ClampCount(env.numAnchorSetSize + jitter)]
     ELSE a


(* ---------------------------- finishTrial ---------------------------- *)
\* A world is the part of the state a handler works on:
\* [st, refs, timers, hist].

\* finishTrial(correct, rt) of the closure env; jitter is the draw
\* Math.floor(Math.random() * 3) - 1 of the enumerate branch
finishTrial(w, env, correct, rt, jitter, byTimeout) ==
  LET s1 == ScorePoints(w.st, env, correct, rt)
      streak == w.refs.correctStreakRef
      win == PushOutcome(w.refs.recentOutcomes, correct, rt)
      sc == Staircase(s1.setSize, streak, correct)
      s2 == IF env.mode = "spatial" THEN s1
            ELSE IF env.mode = "numerosity" THEN NumAdapt(s1, env, win, jitter)
            ELSE [s1 EXCEPT !.setSize = sc.setSize]
      r2 == IF env.mode = "spatial"
            THEN [w.refs EXCEPT !.correctStreakRef = SpatialStreak(streak, correct)]
            ELSE IF env.mode = "numerosity"
            THEN [w.refs EXCEPT !.recentOutcomes = win, !.correctStreakRef = 0]
            ELSE [w.refs EXCEPT !.correctStreakRef = sc.streak]
  IN [st |-> [s2 EXCEPT !.barTotal = @ + 1, !.trial = @ + 1],
      refs |-> r2,
      timers |-> Append(w.timers, Timer(CONT_MS, "cont", env, correct, FALSE)),
      hist |-> [w.hist EXCEPT !.left = @ - 1, !.nScored = @ + 1,
                              !.numLeft = IF env.mode = "numerosity"
                                          THEN @ - 1 ELSE @,
                              !.awaiting = FALSE,
                              !.correct = correct, !.rt = rt,
                              !.byTimeout = byTimeout, !.runMode = env.mode,
                              !.input = IF byTimeout THEN "timer" ELSE "resp",
                              !.rankUps = IF RankUp(env, correct, rt)
                                          THEN @ + 1 ELSE @,
                              !.rescored = @ \/ ~w.hist.awaiting,
                              !.vStreak =
                                 IF env.mode = "spatial" THEN @
                                 ELSE IF env.mode = "numerosity" THEN 0
                                 ELSE Staircase(s1.setSize, @, correct).streak]]

(* ----------------------------- startTrial ---------------------------- *)
\* the counts of a compare trial: <<cntA, cntB>>
CompareCounts(base, delta, swap) ==
  LET smaller == Max(NUM_COUNT_MIN, base - (delta \div 2))
      larger == Min(NUM_COUNT_MAX, smaller + delta)
  IN IF swap THEN <<larger, smaller>> ELSE <<smaller, larger>>

\* startTrial() of the closure env; swap and change are the Math.random()
\* draws (which array is larger, whether the probe changes)
startTrial(w, env, swap, change) ==
  LET cnt == CompareCounts(env.numAnchorSetSize, env.numCompareDelta, swap)
      base == [w.refs EXCEPT !.respTimeoutRef = "null"]
      r1 == IF env.mode = "numerosity"
            THEN IF env.numerositySubmode = "compare"
                 THEN [base EXCEPT !.numCountARef = cnt[1],
                                   !.numCountBRef = cnt[2],
                                   !.numBLargerRef = cnt[2] > cnt[1],
                                   !.posLen = 0, !.changeRef = FALSE]
                 ELSE [base EXCEPT !.numTargetCountRef = ClampCount(env.setSize),
                                   !.posLen = 0, !.changeRef = FALSE]
            ELSE [base EXCEPT !.posLen = Max(0, env.setSize),
                              !.changeRef = change]
  IN [st |-> [w.st EXCEPT !.phase = "fix"],
      refs |-> r1,
      timers |-> Append(ClearResp(w.timers),
                        Timer(FIX_MS, "preblank", env, FALSE, FALSE)),
      hist |-> [w.hist EXCEPT !.correct = FALSE, !.rt = 0,
                              !.byTimeout = FALSE, !.runMode = "none",
                              !.genMode = env.mode,
                              !.genSub = env.numerositySubmode,
                              !.winElapsed = 0, !.pausedInTest = FALSE,
                              !.ansChoice = "none", !.ansNum = 0,
                              !.rankUps = 0, !.phaseElapsed = 0]]

\* the continuation scheduled by finishTrial: block accounting, next trial
Continuation(w, env, correct, swap, change) ==
  LET nCorrect == env.barCorrect + (IF correct THEN 1 ELSE 0)
      closes == (env.barTotal + 1) % BLOCK_SIZE = 0
      s1 == IF closes
            THEN [w.st EXCEPT !.barCorrect = 0, !.barTotal = 0,
                              !.setSize = IF env.mode = "spatial"
                                          THEN BlockRule(@, nCorrect) ELSE @]
            ELSE w.st
      h1 == IF closes /\ env.mode = "spatial"
            THEN [w.hist EXCEPT !.blockRuled = TRUE] ELSE w.hist
  IN startTrial([w EXCEPT !.st = s1, !.hist = h1], env, swap, change)

(* -------------------------- Phase callbacks -------------------------- *)
EnterPhase(w, ph, rem, cb, env) ==
  [w EXCEPT !.st.phase = ph,
            !.timers = Append(@, Timer(rem, cb, env, FALSE, FALSE)),
            !.hist.phaseElapsed = 0]

\* the callback that opens the response window
EnterTest(w, env) ==
  [w EXCEPT !.st.phase = "test",
            !.refs.sinceTestStart = 0,
            !.refs.respElapsedRef = 0,
            !.refs.respTimeoutRef = "set",
            !.timers = Append(Untrack(@),
                              Timer(RESP_WINDOW_MS, "timeout", env, FALSE, TRUE)),
            !.hist.awaiting = TRUE,
            !.hist.winElapsed = 0,
            !.hist.pausedInTest = FALSE,
            !.hist.phaseElapsed = 0]

\* the callback cb of closure env, run on world w (its timer removed)
Callback(w, t, swap, change, jitter) ==
  LET env == t.env
      compare == env.mode = "numerosity" /\ env.numerositySubmode = "compare"
  IN CASE t.cb = "preblank" ->
            EnterPhase(w, "preblank", PRE_BLANK_MS, "afterPreblank", env)
       [] t.cb = "afterPreblank" ->
            IF compare
            THEN EnterPhase(w, "memA", env.numExposureMs, "isiA", env)
            ELSE [EnterPhase(w, "mem",
                             IF env.mode = "numerosity" THEN env.numExposureMs
                             ELSE MEM_MS,
                             "afterMem", env)
                  EXCEPT !.refs.sacTarget = FALSE, !.refs.sacHitRef = FALSE]
       [] t.cb = "isiA" -> EnterPhase(w, "isiA", ISI_MS \div 2, "memB", env)
       [] t.cb = "memB" -> EnterPhase(w, "memB", env.numExposureMs, "isiB", env)
       [] t.cb = "isiB" -> EnterPhase(w, "isiB", ISI_MS \div 2, "test", env)
       [] t.cb = "afterMem" ->
            IF env.mode = "saccade"
            THEN [EnterPhase(w, "saccade", SAC_ON_MS, "afterSaccade", env)
                  EXCEPT !.st.sacTotal = @ + 1,
                         !.refs.sacTarget = TRUE, !.refs.sacHitRef = FALSE]
            ELSE EnterPhase(w, "isi", ISI_MS, "test", env)
       [] t.cb = "afterSaccade" ->
            [EnterPhase(w, "isi", SAC_BLANK_MS, "test", env)
             EXCEPT !.refs.sacTarget = FALSE]
       [] t.cb = "test" -> EnterTest(w, env)
       [] t.cb = "timeout" ->
            finishTrial(w, env, FALSE, RESP_WINDOW_MS, jitter, TRUE)
       [] t.cb = "cont" -> Continuation(w, env, t.correct, swap, change)


(* --------------------------- Initial states -------------------------- *)
\* a state the session values of which were reached in an earlier page
\* session and persisted
SessionState(mode, sub, setSize, points, trial, barTotal, barCorrect) ==
  [InitialState EXCEPT !.mode = mode, !.numerositySubmode = sub,
                       !.setSize = setSize, !.points = points,
                       !.trial = trial, !.barTotal = barTotal,
                       !.barCorrect = barCorrect]

\* what the persistence effects left in storage for such a state (the mode
\* button passes numerosity on its way to saccade)
StoreOf(s) ==
  LET a == PersistSession(PersistMode(EmptyStore, s), s)
  IN IF s.mode = "saccade"
     THEN [a EXCEPT !.numerosity_submode = Item(s.numerositySubmode)]
     ELSE a

\* Storage contents at page load.  Each is left behind by a run of the
\* program that starts with empty storage:
\*  - nothing (first launch);
\*  - the mode button clicked before the page was closed (for the compare
\*    session: Compare clicked in numerosity mode and the blur button
\*    clicked twice, which persists the sub-mode);
\*  - 27 slow correct key answers in orientation mode (set size 1 -> 10,
\*    one block closed after trial 20);
\*  - 15 slow correct key answers in orientation mode (set size 6), the
\*    mode button clicked twice, 4 slow correct key answers in spatial mode;
\*  - the 27 answers above, the mode button clicked twice, 12 wrong key
\*    answers in spatial mode.
StoredSessions ==
  {EmptyStore}
  \cup {StoreOf(SessionState(m, "enumerate", 1, 0, 0, 0, 0)) :
          m \in Modes \ {"orientation"}}
  \cup {StoreOf(SessionState("numerosity", "compare", 1, 0, 0, 0, 0)),
        StoreOf(SessionState("orientation", "enumerate", 10, 270, 27, 7, 7)),
        StoreOf(SessionState("spatial", "enumerate", 6, 190, 19, 19, 19)),
        StoreOf(SessionState("spatial", "enumerate", 10, 270, 39, 19, 7))}

InitialRefs ==
  [respTimeoutRef |-> "null", correctStreakRef |-> 0, respElapsedRef |-> 0,
   sinceTestStart |-> AgeCap, changeRef |-> FALSE, posLen |-> 0,
   numTargetCountRef |-> 0, numCountARef |-> 0, numCountBRef |-> 0,
   numBLargerRef |-> FALSE, recentOutcomes |-> <<>>,
   sacTarget |-> FALSE, sacHitRef |-> FALSE]

\* History of the run, read by no handler:
\*   left, numLeft  events and numerosity finishTrial calls still explored
\*   nScored        finishTrial calls so far
\*   awaiting       a response window was opened and not yet scored
\*   correct, rt, byTimeout, runMode
\*                  arguments and closure mode of the last finishTrial call,
\*                  until the next trial starts
\*   genMode, genSub  closure mode of the last startTrial call
\*   winElapsed     unpaused time since the response window was opened
\*   pausedInTest   P paused the session during this response window, before
\*                  the trial was scored and before the window had run out
\*   blockRuled     the spatial block rule has set the set size
\*   ansChoice, ansNum
\*                  the answer of the last accepted response ("left" or
\*                  "right"; a number), until the next trial starts
\*   rankUps        rank-up notifications emitted since the last trial start
\*   phaseElapsed   time since the phase was last set, in the phases before
\*                  the test phase
\*   exhausted      whether an item of a stimulus generator ran out of
\*                  tries: "no", "certain" (no value could pass the test),
\*                  "chance" (one could), "guard" (shape attempts used up)
\*   vStreak        the streak counter as it would stand if finishTrial
\*                  left it untouched in spatial mode
\*   rescored       finishTrial ran for a trial that was already scored
\*   unmounted      the component was unmounted (SpecUnmount); input is
\*                  "late" once a timer callback ran after that
\*   input          the last event that used up an explored event: "resp" a
\*                  response key or button, "reset" the reset-stats key,
\*                  "ui" another key or click,
\*                  "timer" a response-window timeout; "load" once the
\*                  effects of the first render ran (SpecLoad)
InitialHist(events, numScored) ==
  [left |-> events, numLeft |-> numScored, nScored |-> 0,
   awaiting |-> FALSE, correct |-> FALSE, rt |-> 0, byTimeout |-> FALSE,
   runMode |-> "none", genMode |-> "none", genSub |-> "none",
   winElapsed |-> 0, pausedInTest |-> FALSE, blockRuled |-> FALSE,
   input |-> "none", ansChoice |-> "none", ansNum |-> 0, rankUps |-> 0,
   phaseElapsed |-> 0, unmounted |-> FALSE, exhausted |-> "no",
   vStreak |-> 0, rescored |-> FALSE]

Init ==
  \E sto \in StoredSessions :
    /\ st = Load(sto)
    /\ refs = InitialRefs
    /\ timers = <<>>
    /\ kenv = Env(Load(sto))
    /\ store = MountStore(sto, Load(sto))
    /\ hist = InitialHist(MaxEvents, MaxNumScored)

(* ------------------------------ Actions ------------------------------ *)
World == [st |-> st, refs |-> refs, timers |-> timers, hist |-> hist]

\* performance.now() - testStartRef.current is read only by handlers that
\* run while the phase is test and the session is not paused, and every
\* entry into the test phase and every resume assigns testStartRef;
\* respElapsedRef is read only by a resume in the test phase, and every
\* entry into the test phase and every pause in it assigns it.  Outside
\* these windows the two cells are held at a fixed value.
Settle(r, s) ==
  [r EXCEPT !.sinceTestStart = IF s.phase = "test" /\ ~s.paused THEN @
                               ELSE AgeCap,
            !.respElapsedRef = IF s.phase = "test" /\ s.paused THEN @ ELSE 0]

\* the handler's result, the render it causes and the effects of the render
CommitWith(w, sto) ==
  /\ st' = w.st
  /\ refs' = Settle(w.refs, w.st)
  /\ timers' = w.timers
  /\ hist' = w.hist
  /\ kenv' = KeyEnv(kenv, st, w.st)
  /\ store' = Persist(sto, st, w.st)

Commit(w) == CommitWith(w, store)

\* the random draws a closure can consume
SwapDraws(env) ==
  IF env.mode = "numerosity" /\ env.numerositySubmode = "compare"
  THEN BOOLEAN ELSE {FALSE}
ChangeDraws(env) == IF env.mode = "numerosity" THEN {FALSE} ELSE BOOLEAN
JitterDraws(env) ==
  IF env.mode = "numerosity" /\ env.numerositySubmode = "enumerate"
  THEN {-1, 0, 1} ELSE {0}

UiLeft == hist.left > 0
CountUi(w) == [w EXCEPT !.hist.left = @ - 1, !.hist.input = "ui"]

\* time passes: by a user delay or up to the next timer expiry, never
\* beyond a pending expiry
MinRem == IF timers = <<>> THEN 0
          ELSE CHOOSE m \in {timers[i].rem : i \in DOMAIN timers} :
                 \A i \in DOMAIN timers : m <= timers[i].rem

AdvanceBy(delays) ==
  \E d \in delays \cup {MinRem} :
    /\ d > 0
    /\ timers # <<>> => d <= MinRem
    /\ Commit([World EXCEPT
         !.timers = [i \in DOMAIN timers |-> [timers[i] EXCEPT !.rem = @ - d]],
         !.refs.sinceTestStart = Min(AgeCap, @ + d),
         !.hist.winElapsed = IF st.phase = "test" /\ ~st.paused
                             THEN Min(AgeCap, @ + d) ELSE @,
         !.hist.phaseElapsed = IF st.phase \in {"idle", "test"} THEN @
                               ELSE Min(AgeCap, @ + d)])
    /\ refs' # refs \/ timers' # timers

Advance == AdvanceBy(Delays)

\* finishTrial may run once more in closure env
MayScore(env) ==
  /\ hist.left > 0
  /\ env.mode = "numerosity" => hist.numLeft > 0

\* a due timer fires; timers due at the same instant run in the order in
\* which they were scheduled
Fire ==
  \E i \in DOMAIN timers :
    /\ timers[i].rem = 0
    /\ \A j \in 1..(i - 1) : timers[j].rem # 0
    /\ timers[i].cb = "timeout" => MayScore(timers[i].env)
    /\ \E swap \in SwapDraws(timers[i].env),
          change \in ChangeDraws(timers[i].env),
          jitter \in JitterDraws(timers[i].env) :
         Commit(Callback([World EXCEPT !.timers = RemoveAt(timers, i)],
                         timers[i], swap, change, jitter))


(* --------------------------- Response gate --------------------------- *)
\* if (respTimeoutRef.current != null) { clearTimeout(...); ... = null }
CancelResp(w) ==
  [w EXCEPT !.timers = ClearResp(@), !.refs.respTimeoutRef = "null"]

\* variant: the guard without its pause test
Accepting_IgnoresPause == ~st.help /\ st.phase = "test"

\* the three handlers accept under the same guard
Accepting == ~st.help /\ ~st.paused /\ st.phase = "test"

\* handleResponse(respChange) of the closure env
handleResponse(w, env, respChange, jitter) ==
  [finishTrial(CancelResp(w), env, respChange = w.refs.changeRef,
               w.refs.sinceTestStart, jitter, FALSE)
   EXCEPT !.hist.ansChoice = IF respChange THEN "right" ELSE "left",
          !.hist.ansNum = 0]

\* handleNumerosityAnswer(ans) of the closure env
handleNumerosityAnswer(w, env, ans, jitter) ==
  [finishTrial(CancelResp(w), env, ans = w.refs.numTargetCountRef,
               w.refs.sinceTestStart, jitter, FALSE)
   EXCEPT !.hist.ansChoice = "none", !.hist.ansNum = ans]

\* the compare branch of onKey: LEFT = A more, RIGHT = B more
compareResponse(w, env, right, jitter) ==
  [finishTrial(CancelResp(w), env, right = w.refs.numBLargerRef,
               w.refs.sinceTestStart, jitter, FALSE)
   EXCEPT !.hist.ansChoice = IF right THEN "right" ELSE "left",
          !.hist.ansNum = 0]

\* a response handler that returns at its guard
Rejected(w) == [w EXCEPT !.hist.left = @ - 1, !.hist.input = "resp"]

\* ArrowLeft / ArrowRight (with the help overlay shown: DismissHelp)
KeyArrow ==
  \E right \in BOOLEAN, jitter \in JitterDraws(kenv) :
    /\ ~st.help
    /\ IF Accepting
       THEN /\ MayScore(kenv)
            /\ IF kenv.mode = "numerosity"
               THEN /\ kenv.numerositySubmode = "compare"
                    /\ Commit(compareResponse(World, kenv, right, jitter))
               ELSE Commit(handleResponse(World, kenv, right, jitter))
       ELSE /\ UiLeft
            /\ Commit(Rejected(World))

\* keys 4..9 and 0 (for 10) in the enumerate sub-mode (with the help overlay
\* shown: DismissHelp)
KeyDigit ==
  \E ans \in NUM_COUNT_MIN..NUM_COUNT_MAX, jitter \in JitterDraws(kenv) :
    /\ ~st.help
    /\ kenv.mode = "numerosity"
    /\ kenv.numerositySubmode # "compare"
    /\ IF Accepting
       THEN /\ MayScore(kenv)
            /\ Commit(handleNumerosityAnswer(World, kenv, ans, jitter))
       ELSE /\ UiLeft
            /\ Commit(Rejected(World))

\* the Same / Different buttons, rendered outside numerosity mode
ClickSameDifferent ==
  \E respChange \in BOOLEAN, jitter \in JitterDraws(Env(st)) :
    /\ st.mode # "numerosity"
    /\ IF Accepting
       THEN /\ MayScore(Env(st))
            /\ Commit(handleResponse(World, Env(st), respChange, jitter))
       ELSE /\ UiLeft
            /\ Commit(Rejected(World))

\* the number buttons, rendered in the enumerate sub-mode
ClickNumber ==
  \E ans \in NUM_COUNT_MIN..NUM_COUNT_MAX, jitter \in JitterDraws(Env(st)) :
    /\ st.mode = "numerosity"
    /\ st.numerositySubmode # "compare"
    /\ IF Accepting
       THEN /\ MayScore(Env(st))
            /\ Commit(handleNumerosityAnswer(World, Env(st), ans, jitter))
       ELSE /\ UiLeft
            /\ Commit(Rejected(World))

(* ----------------------- Help, pause, reset, mode -------------------- *)
\* any key while the help overlay is shown; the kick-off effect starts the
\* first trial from the closure of the render without the overlay
DismissHelp ==
  /\ st.help
  /\ LET w == [World EXCEPT !.st.help = FALSE]
     IN IF st.phase = "idle"
        THEN \E swap \in SwapDraws(Env(st)), change \in ChangeDraws(Env(st)) :
               Commit(startTrial(w, Env(st), swap, change))
        ELSE Commit(w)

KeyH ==
  /\ ~st.help
  /\ UiLeft
  /\ Commit(CountUi([World EXCEPT !.st.help = TRUE]))

\* variant: a reset that leaves the block counters alone
ResetStats_KeepsBlock(sto) ==
  [sto EXCEPT !.set_size = Item(0), !.points = Item(0),
              !.set_trial = Item(0)]

\* the five localStorage.setItem calls of the reset-stats key
ResetStats(sto) ==
  [sto EXCEPT !.set_size = Item(0), !.points = Item(0),
              !.set_trial = Item(0), !.bar_total = Item(0),
              !.bar_correct = Item(0)]

\* the reset-stats key writes to storage only
KeyR ==
  /\ ~st.help
  /\ UiLeft
  /\ CommitWith([CountUi(World) EXCEPT !.hist.input = "reset"],
                ResetStats(store))

\* P while running
Pause(w) ==
  LET a == IF w.st.phase = "test"
           THEN [CancelResp(w) EXCEPT
                   !.refs.respElapsedRef = w.refs.sinceTestStart,
                   !.hist.pausedInTest =
                      @ \/ (w.hist.awaiting
                            /\ w.hist.winElapsed < RESP_WINDOW_MS)]
           ELSE w
  IN [a EXCEPT !.st.paused = TRUE]

\* P while paused; env is the closure of the key listener
Resume_NoRearm(w, env) == [w EXCEPT !.st.paused = FALSE]

Resume(w, env) ==
  LET remaining == Max(0, RESP_WINDOW_MS - w.refs.respElapsedRef)
      a == IF w.st.phase = "test"
           THEN [w EXCEPT
                   !.refs.sinceTestStart = w.refs.respElapsedRef,
                   !.refs.respTimeoutRef = "set",
                   !.timers = Append(Untrack(@),
                                Timer(remaining, "timeout", env, FALSE, TRUE))]
           ELSE w
  IN [a EXCEPT !.st.paused = FALSE]

KeyP ==
  /\ ~st.help
  /\ UiLeft
  /\ IF ~st.paused THEN Commit(CountUi(Pause(World)))
     ELSE Commit(CountUi(Resume(World, kenv)))

NextMode(m) ==
  IF m = "orientation" THEN "color"
  ELSE IF m = "color" THEN "spatial"
  ELSE IF m = "spatial" THEN "numerosity"
  ELSE IF m = "numerosity" THEN "saccade"
  ELSE "orientation"

ClickMode ==
  /\ UiLeft
  /\ Commit(CountUi([World EXCEPT !.st.mode = NextMode(@)]))

\* the blur button
ClickBlur ==
  /\ UiLeft
  /\ Commit(CountUi([World EXCEPT !.st.blurOn = ~@]))

\* a click on the canvas, on the saccade target (hit) or beside it
handleCanvasClick_Recount(w, hit) ==
  IF hit /\ w.refs.sacTarget
  THEN [w EXCEPT !.refs.sacHitRef = TRUE, !.st.sacHits = @ + 1]
  ELSE w

handleCanvasClick(w, hit) ==
  IF hit /\ w.refs.sacTarget /\ ~w.refs.sacHitRef
  THEN [w EXCEPT !.refs.sacHitRef = TRUE, !.st.sacHits = @ + 1]
  ELSE w

ClickCanvas ==
  \E hit \in BOOLEAN :
    /\ ~st.help /\ ~st.paused
    /\ st.mode = "saccade" /\ st.phase = "saccade"
    /\ UiLeft
    /\ Commit([CountUi(handleCanvasClick(World, hit))
                 EXCEPT !.hist.input = "canvas"])

\* the Enumerate / Compare buttons, rendered in numerosity mode
ClickSubmode ==
  \E sub \in Submodes :
    /\ st.mode = "numerosity"
    /\ sub # st.numerositySubmode
    /\ UiLeft
    /\ Commit(CountUi([World EXCEPT !.st.numerositySubmode = sub]))

Next ==
  \/ Advance
  \/ Fire
  \/ KeyArrow
  \/ KeyDigit
  \/ ClickSameDifferent
  \/ ClickNumber
  \/ DismissHelp
  \/ KeyH
  \/ KeyR
  \/ KeyP
  \/ ClickMode
  \/ ClickSubmode

Spec == Init /\ [][Next]_vars

(* ---------------------- Every input of the page ---------------------- *)
\* Spec with the blur button and the clicks on the canvas
NextPersist ==
  \/ Next
  \/ ClickBlur
  \/ ClickCanvas

SpecPersist == Init /\ [][NextPersist]_vars

(* ---------------------- Unmount specification ------------------------ *)
\* the cleanup of the unmount effect; React removes the key listener and
\* empties canvasRef
Unmount ==
  /\ ~hist.unmounted
  /\ st' = st
  /\ refs' = refs
  /\ timers' = IF refs.respTimeoutRef # "null" THEN ClearResp(timers)
               ELSE timers
  /\ kenv' = kenv
  /\ store' = store
  /\ hist' = [hist EXCEPT !.unmounted = TRUE]

\* a timer callback that runs after the unmount: React drops its state
\* updates, no render and no effect follows; the refs it assigns and the
\* timers it schedules are real; startTrial returns at its canvas test
FireLate ==
  \E i \in DOMAIN timers :
    /\ hist.unmounted
    /\ timers[i].rem = 0
    /\ \A j \in 1..(i - 1) : timers[j].rem # 0
    /\ timers[i].cb = "timeout" => MayScore(timers[i].env)
    /\ \E jitter \in JitterDraws(timers[i].env) :
         LET w0 == [World EXCEPT !.timers = RemoveAt(timers, i)]
             w == IF timers[i].cb = "cont" THEN w0
                  ELSE Callback(w0, timers[i], FALSE, FALSE, jitter)
         IN /\ st' = st
            /\ refs' = w.refs
            /\ timers' = w.timers
            /\ kenv' = kenv
            /\ store' = store
            /\ hist' = [w.hist EXCEPT !.input = "late"]

\* a session that is unmounted at some moment
NextUnmount ==
  \/ Advance
  \/ ~hist.unmounted /\ Fire
  \/ ~hist.unmounted /\ KeyArrow
  \/ ~hist.unmounted /\ DismissHelp
  \/ Unmount
  \/ FireLate

SpecUnmount == Init /\ [][NextUnmount]_vars

(* ----------------------- Streak specification ------------------------ *)
\* a session in spatial mode (the mode button was clicked twice in an
\* earlier page session), answered by key, with the mode button as the only
\* other input; more events per session than Spec explores
MaxStreakEvents == 5

InitStreak ==
  LET sto == StoreOf(SessionState("spatial", "enumerate", 1, 0, 0, 0, 0))
  IN  /\ st = Load(sto)
      /\ refs = InitialRefs
      /\ timers = <<>>
      /\ kenv = Env(Load(sto))
      /\ store = MountStore(sto, Load(sto))
      /\ hist = InitialHist(MaxStreakEvents, 0)

NextStreak ==
  \/ Advance
  \/ Fire
  \/ KeyArrow
  \/ DismissHelp
  \/ ClickMode

SpecStreak == InitStreak /\ [][NextStreak]_vars

(* ----------------------- Pause specification ------------------------- *)
\* a first launch in orientation mode, answered by key, with P as the only
\* other input; more events per session than Spec explores
InitPause ==
  /\ st = Load(EmptyStore)
  /\ refs = InitialRefs
  /\ timers = <<>>
  /\ kenv = Env(Load(EmptyStore))
  /\ store = MountStore(EmptyStore, Load(EmptyStore))
  /\ hist = InitialHist(MaxPauseEvents, 0)

NextPause ==
  \/ Advance
  \/ Fire
  \/ KeyArrow
  \/ DismissHelp
  \/ KeyP

SpecPause == InitPause /\ [][NextPause]_vars

(* --------------------- Liveness specification ----------------------- *)
\* a first launch in orientation mode, answered by key, with P as the only
\* other input.  The explored events are counted as in SpecPause, except
\* that a paused session can always be resumed; timers that are due fire,
\* time passes, and a paused session is resumed at some time.
MaxLiveEvents == 2

InitLive ==
  /\ st = Load(EmptyStore)
  /\ refs = InitialRefs
  /\ timers = <<>>
  /\ kenv = Env(Load(EmptyStore))
  /\ store = MountStore(EmptyStore, Load(EmptyStore))
  /\ hist = InitialHist(MaxLiveEvents, 0)

\* P while paused, not counted as an explored event
ResumeKey ==
  /\ ~st.help /\ st.paused
  /\ Commit([Resume(World, kenv) EXCEPT !.hist.input = "ui"])

NextLive ==
  \/ Advance
  \/ Fire
  \/ KeyArrow
  \/ DismissHelp
  \/ KeyP
  \/ ResumeKey

SpecLive ==
  /\ InitLive /\ [][NextLive]_vars
  /\ WF_vars(Advance) /\ WF_vars(Fire) /\ WF_vars(ResumeKey)

(* --------------------- Numerosity specification ---------------------- *)
\* a stored session with its numerosity difficulty parameters
NumSessionState(base, exposure, sep, sim, anchor, delta) ==
  [base EXCEPT !.numExposureMs = exposure, !.numMinSepPx = sep,
               !.numSimilarity01 = sim, !.numAnchorSetSize = anchor,
               !.numCompareDelta = delta]

\* Storage contents at page load, left behind by numerosity sessions that
\* started with empty storage (the outcome window is not persisted, so each
\* page load starts with an empty window):
\*  - the mode button clicked three times (enumerate) and Compare clicked
\*    (a compare session ends with two clicks on the blur button, which
\*    persist the sub-mode);
\*  - one wrong compare answer (the controller eases: delta 3), the page
\*    reloaded, Enumerate clicked, four correct answers within 600 ms (the
\*    controller tightens four times: anchor 9), Compare clicked;
\*  - ten wrong compare answers (every parameter at its easy limit);
\*  - fourteen correct compare answers within 600 ms (every parameter at its
\*    hard limit).
NumStoredSessions ==
  {StoreOf(SessionState("numerosity", sub, 1, 0, 0, 0, 0)) : sub \in Submodes}
  \cup
  {StoreOf(NumSessionState(
             SessionState("numerosity", "compare", 8, 60, 5, 5, 4),
             140, 22, 38, 9, 3)),
   StoreOf(NumSessionState(
             SessionState("numerosity", "compare", 1, 0, 10, 10, 0),
             350, 48, 0, 5, 3)),
   StoreOf(NumSessionState(
             SessionState("numerosity", "compare", 1, 210, 14, 14, 14),
             120, 18, 100, 9, 1))}

InitNum ==
  \E sto \in NumStoredSessions :
    /\ st = Load(sto)
    /\ refs = InitialRefs
    /\ timers = <<>>
    /\ kenv = Env(Load(sto))
    /\ store = MountStore(sto, Load(sto))
    /\ hist = InitialHist(MaxNumEvents, MaxNumTrials)

\* delays, in ms, after which the user acts in a numerosity session: a
\* reaction time between the two thresholds of the controller
NumDelays == {1000}

AdvanceNum == AdvanceBy(NumDelays)

\* keyboard answers and the sub-mode buttons
NextNum ==
  \/ AdvanceNum
  \/ Fire
  \/ KeyArrow
  \/ KeyDigit
  \/ DismissHelp
  \/ ClickSubmode

SpecNum == InitNum /\ [][NextNum]_vars

(* ---------------------- Compare specification ----------------------- *)
\* a numerosity-compare session that starts from storage holding any anchor
\* and compare delta that the load effect accepts (the other parameters at
\* their defaults), answered by key
MaxCompareEvents == 1

CompareStoredSessions ==
  {StoreOf(NumSessionState(
             SessionState("numerosity", "compare", 1, 0, 0, 0, 0),
             NUM_MEM_MS, NUM_MIN_SEP, 20, anchor, delta)) :
     anchor \in NUM_SET_MIN .. NUM_SET_MAX, delta \in 1 .. 3}

InitCompare ==
  \E sto \in CompareStoredSessions :
    /\ st = Load(sto)
    /\ refs = InitialRefs
    /\ timers = <<>>
    /\ kenv = Env(Load(sto))
    /\ store = MountStore(sto, Load(sto))
    /\ hist = InitialHist(MaxCompareEvents, MaxCompareEvents)

NextCompare ==
  \/ AdvanceNum
  \/ Fire
  \/ KeyArrow
  \/ DismissHelp

SpecCompare == InitCompare /\ [][NextCompare]_vars

(* ------------------------ Load specification ------------------------ *)
\* parseInt and parseFloat return NaN for a text that does not start with a
\* number.  NaN is represented by a value below every number: the load
\* effect tests a parsed number x by x == 0 or by Number.isFinite(x) && x >=
\* c (x > c) with c >= 0, and either test is false for NaN and for this value
NaN == -1000000

\* what the texts found under a numeric key parse to
RawValues == {NaN, -3, 0, 7, 16, 25, 60, 150, 400}

NumericKeys ==
  {"set_size", "points", "set_trial", "bar_total", "bar_correct",
   "num_exposure_ms", "num_min_sep", "num_similarity01",
   "num_anchor_setsize", "num_compare_delta"}

\* storage the page may find: any text under up to two of the numeric keys
RawStores ==
  {[EmptyStore EXCEPT ![k1] = Item(v1), ![k2] = Item(v2)] :
     k1 \in NumericKeys, k2 \in NumericKeys,
     v1 \in RawValues, v2 \in RawValues}
  \cup {EmptyStore}

\* the first render, before its effects ran
InitLoad ==
  \E sto \in RawStores :
    /\ st = InitialState
    /\ refs = InitialRefs
    /\ timers = <<>>
    /\ kenv = Env(InitialState)
    /\ store = sto
    /\ hist = InitialHist(0, 0)

\* the effects of the first render: the load effect, the persistence
\* effects, and the same effects for the render that shows the loaded values
Mount ==
  /\ hist.input = "none"
  /\ st' = Load(store)
  /\ refs' = refs
  /\ timers' = timers
  /\ kenv' = Env(Load(store))
  /\ store' = MountStore(store, Load(store))
  /\ hist' = [hist EXCEPT !.input = "load"]

NextLoad == Mount

SpecLoad == InitLoad /\ [][NextLoad]_vars

(* --------------------- Generator specification ---------------------- *)
\* The stimulus generators and the part of startTrial that builds the
\* orientation arrays, for one call each.  In this specification refs holds
\* the array cells of startTrial and the locals of the running generator.
ANGLE_CHANGE == 20
HUE_MIN_SEP == 30

\* Math.floor(Math.random() * 180) and Math.floor(Math.random() * 360)
OrientRange == 0 .. 179
HueRange == 0 .. 359

\* the draws explored: five orientations 36 apart, after which no further
\* orientation is far enough from all of them, three hues 52 apart, and for
\* either a value close to the wrap-around
OrientDraws == {0, 36, 72, 108, 144, 170}
HueDraws == {0, 52, 104, 340}

\* set sizes and modes of the calls explored
GenSizes == {SET_MIN, 6, SET_MAX}
GenModes == {"orientation", "color"}

circularMinDiff_Linear(a, b) ==
  IF a - b < 0 THEN b - a ELSE a - b

circularMinDiff(a, b) ==
  LET d == IF a - b < 0 THEN b - a ELSE a - b
  IN  Min(d, 180 - d)

\* the distance computed in the test of randomHues
HueDiff(o, h) ==
  LET d == IF o - h < 0 THEN h - o ELSE o - h
  IN  Min(d, 360 - d)

\* the test a drawn value must pass to be pushed
OrientOk(arr, ang) ==
  \A k \in DOMAIN arr : circularMinDiff(arr[k], ang) >= ANGLE_CHANGE

HueOk(arr, h) ==
  \A k \in DOMAIN arr : HueDiff(arr[k], h) >= HUE_MIN_SEP

DrawOk(gen, arr, v) ==
  IF gen = "orient" THEN OrientOk(arr, v) ELSE HueOk(arr, v)

DrawRange(gen) == IF gen = "orient" THEN OrientRange ELSE HueRange

\* every value a draw can give passes the test; none does
AllPass(gen, arr) == \A v \in DrawRange(gen) : DrawOk(gen, arr, v)

NonePasses(gen, arr) == \A v \in DrawRange(gen) : ~DrawOk(gen, arr, v)

\* an item of an array that was never assigned
Hole == NaN - 1

\* arr[idx] = v of JavaScript, idx counted from 0: an index past the end
\* lengthens the array and leaves holes in between
SetAt(arr, idx, v) ==
  IF idx < Len(arr) THEN [arr EXCEPT ![idx + 1] = v]
  ELSE [k \in 1 .. idx + 1 |->
          IF k <= Len(arr) THEN arr[k] ELSE IF k = idx + 1 THEN v ELSE Hole]

\* arr[idx] of JavaScript as a number: a hole or an index past the end reads
\* undefined, and arithmetic on it gives NaN
ReadAt(arr, idx) ==
  IF idx < Len(arr) /\ arr[idx + 1] # Hole THEN arr[idx + 1] ELSE NaN

GenRefs(gen) ==
  [pc |-> "loop", gen |-> gen, arr |-> <<>>, i |-> 0,
   memOrientsRef |-> <<>>, memHuesRef |-> <<>>, testOrientsRef |-> <<>>,
   memFreqsRef |-> <<>>, testFreqsRef |-> <<>>,
   probeIdxRef |-> 0, changeRef |-> FALSE]

\* a call of randomOrientations(setSize), or of randomHues(setSize) in color
\* mode, from startTrial
InitGen ==
  \E n \in GenSizes, m \in GenModes, gen \in {"orient", "hue"} :
    /\ gen = "hue" => m = "color"
    /\ st = [InitialState EXCEPT !.setSize = n, !.mode = m, !.help = FALSE]
    /\ refs = GenRefs(gen)
    /\ timers = <<>>
    /\ kenv = Env(st)
    /\ store = EmptyStore
    /\ hist = InitialHist(0, 0)

GenFrame == /\ st' = st /\ timers' = timers /\ kenv' = kenv /\ store' = store

\* an iteration of the for loop in which one of the at most 999 draws
\* passed the test: the value is pushed and the while loop is left
GenPush ==
  /\ refs.pc = "loop" /\ refs.i < st.setSize
  /\ \E v \in (IF refs.gen = "orient" THEN OrientDraws ELSE HueDraws) :
       /\ DrawOk(refs.gen, refs.arr, v)
       /\ refs' = [refs EXCEPT !.arr = Append(@, v), !.i = @ + 1]
  /\ hist' = hist
  /\ GenFrame

\* an iteration of the for loop in which all 999 draws failed the test:
\* nothing is pushed.  This needs a value of the range that fails the test;
\* it is certain when no value of the range passes it
GenExhaust ==
  /\ refs.pc = "loop" /\ refs.i < st.setSize
  /\ ~AllPass(refs.gen, refs.arr)
  /\ refs' = [refs EXCEPT !.i = @ + 1]
  /\ hist' = [hist EXCEPT !.exhausted =
                IF ~NonePasses(refs.gen, refs.arr) THEN "chance"
                ELSE IF @ = "chance" THEN @ ELSE "certain"]
  /\ GenFrame

\* return arr, and the assignment of startTrial that takes it
GenReturn ==
  /\ refs.pc = "loop" /\ refs.i = st.setSize
  /\ refs' = IF refs.gen = "orient"
             THEN [refs EXCEPT !.memOrientsRef = refs.arr, !.pc = "probe"]
             ELSE [refs EXCEPT !.memHuesRef = refs.arr, !.pc = "done"]
  /\ hist' = hist
  /\ GenFrame

\* startTrial from "Decide change and probe" on, for the orientation arrays
BuildTest ==
  /\ refs.pc = "probe"
  /\ \E change \in BOOLEAN, probe \in 0 .. st.setSize - 1, minus \in BOOLEAN :
       LET copy == refs.memOrientsRef
           delta == IF minus THEN 0 - ANGLE_CHANGE ELSE ANGLE_CHANGE
           base == ReadAt(copy, probe)
           turned == IF base = NaN THEN NaN
                     ELSE (base + delta + 180) % 180
       IN  refs' = [refs EXCEPT
                      !.changeRef = change,
                      !.probeIdxRef = probe,
                      !.testOrientsRef =
                         IF change /\ st.mode \notin {"color", "spatial"}
                         THEN SetAt(copy, probe, turned) ELSE copy,
                      !.pc = "done"]
  /\ hist' = hist
  /\ GenFrame

NextGen ==
  \/ GenPush
  \/ GenExhaust
  \/ GenReturn
  \/ BuildTest

SpecGen == InitGen /\ [][NextGen]_vars

(* --------------------- Frequency specification ---------------------- *)
\* randomFreqs, for one call, and the part of startTrial that builds the
\* frequency arrays from its result.  Frequencies are counted in units of
\* 1/10080 cycle, in which the fallback value of every item of every array
\* of up to ten items and its products with 0.75 and 1.25 are whole
\* numbers; refs holds the array cells and the locals of the call.
FreqUnit == 10080
FREQ_MIN == 1 * FreqUnit
FREQ_MAX == 6 * FreqUnit

\* rel >= FREQ_MIN_SEP_FRAC with rel = |f - o| / ((f + o) / 2) and
\* FREQ_MIN_SEP_FRAC = 0.12, for the frequencies fn / fd and o
FreqApart(fn, fd, o) ==
  LET d == IF fn - o * fd < 0 THEN o * fd - fn ELSE fn - o * fd
  IN  50 * d >= 3 * (fn + o * fd)

FreqOk(arr, f) == \A k \in DOMAIN arr : FreqApart(f, 1, arr[k])

\* the value pushed for item i when no draw passed
FreqFallbackValue(i, n) ==
  FREQ_MIN + (i * (FREQ_MAX - FREQ_MIN)) \div Max(1, n - 1)

\* the draws explored for item i (counted from 0): the steps 1.1, 1.386, ...
\* of a ladder of ratio 1.26, eight of which leave no frequency of the range
\* that is far enough from all of them
FreqLadder == <<11088, 13972, 17604, 22180, 27948, 35212, 44368, 55904>>
FreqDraws(i) == IF i < Len(FreqLadder) THEN {FreqLadder[i + 1]} ELSE {}

\* no frequency of [FREQ_MIN, FREQ_MAX) passes the test.  The frequencies
\* that fail against o are those strictly between 47 o / 53 and 53 o / 47, so
\* the least passing frequency, if there is one, is FREQ_MIN or 53 o / 47 for
\* an item o
FreqNonePasses(arr) ==
  /\ ~FreqOk(arr, FREQ_MIN)
  /\ \A k \in DOMAIN arr :
       \/ 53 * arr[k] >= 47 * FREQ_MAX
       \/ \E j \in DOMAIN arr : ~FreqApart(53 * arr[k], 47, arr[j])

FreqSizes == 1 .. SET_MAX

InitFreq ==
  \E n \in FreqSizes :
    /\ st = [InitialState EXCEPT !.setSize = n, !.mode = "spatial",
                                 !.help = FALSE]
    /\ refs = GenRefs("freq")
    /\ timers = <<>>
    /\ kenv = Env(st)
    /\ store = EmptyStore
    /\ hist = InitialHist(0, 0)

\* an iteration of the for loop in which one of the at most 999 draws
\* passed the test
FreqPush ==
  /\ refs.pc = "loop" /\ refs.i < st.setSize
  /\ \E f \in FreqDraws(refs.i) :
       /\ FreqOk(refs.arr, f)
       /\ refs' = [refs EXCEPT !.arr = Append(@, f), !.i = @ + 1]
  /\ hist' = hist
  /\ GenFrame

\* an iteration of the for loop in which all 999 draws failed the test, which
\* needs an item in arr: the fallback value is pushed untested
FreqFallback ==
  /\ refs.pc = "loop" /\ refs.i < st.setSize
  /\ refs.arr # <<>>
  /\ refs' = [refs EXCEPT
                !.arr = Append(@, FreqFallbackValue(refs.i, st.setSize)),
                !.i = @ + 1]
  /\ hist' = [hist EXCEPT !.exhausted =
                IF ~FreqNonePasses(refs.arr) THEN "chance"
                ELSE IF @ = "chance" THEN @ ELSE "certain"]
  /\ GenFrame

\* return arr, and the assignment of startTrial that takes it
FreqReturn ==
  /\ refs.pc = "loop" /\ refs.i = st.setSize
  /\ refs' = [refs EXCEPT !.memFreqsRef = refs.arr, !.pc = "probe"]
  /\ hist' = hist
  /\ GenFrame

\* base * (1 + sign * FREQ_STEP_FRAC) with FREQ_STEP_FRAC = 0.25, clamped
FreqStep(base, minus) ==
  Max(FREQ_MIN, Min(FREQ_MAX, IF minus THEN (base * 3) \div 4
                                        ELSE (base * 5) \div 4))

\* startTrial from "Decide change and probe" on, for the frequency arrays
\* of a trial in spatial mode
FreqBuildTest ==
  /\ refs.pc = "probe"
  /\ \E change \in BOOLEAN, probe \in 0 .. st.setSize - 1, minus \in BOOLEAN :
       LET copy == refs.memFreqsRef
       IN  refs' = [refs EXCEPT
                      !.changeRef = change,
                      !.probeIdxRef = probe,
                      !.testFreqsRef =
                         IF change /\ st.mode = "spatial"
                         THEN SetAt(copy, probe,
                                    FreqStep(ReadAt(copy, probe), minus))
                         ELSE copy,
                      !.pc = "done"]
  /\ hist' = hist
  /\ GenFrame

NextFreq ==
  \/ FreqPush
  \/ FreqFallback
  \/ FreqReturn
  \/ FreqBuildTest

SpecFreq == InitFreq /\ [][NextFreq]_vars

(* ----------------------- Shapes specification ----------------------- *)
\* generateNumerosityShapes, for the call of an enumerate trial.  A shape is
\* kept as the way it was placed and its place: the offsets x, y from the
\* centre for a sampled shape, the slot i of the ring for a padded one.  Its
\* size, rotation, hue and kind are not modelled.
NUM_GUARD == 5000

\* single rejected draws explored per call
MaxShapeRejects == 2

\* the points of the disc that randomInDisc is explored to return
ShapePoints == {<<0, 0>>, <<30, 0>>, <<0, 30>>, <<30, 30>>, <<-30, 0>>}

\* minimum separations of the calls explored
ShapeSeps == {NUM_MIN_SEP, 48}

Sampled(p) == [via |-> "sample", x |-> p[1], y |-> p[2], slot |-> 0]
Ring(i) == [via |-> "ring", x |-> 0, y |-> 0, slot |-> i]

\* Math.hypot(s.x - x, s.y - y) >= minSepPx, for a separation that is not
\* negative
FarEnough_Manhattan(s, p, minSepPx) ==
  (IF s.x - p[1] < 0 THEN p[1] - s.x ELSE s.x - p[1])
    + (IF s.y - p[2] < 0 THEN p[2] - s.y ELSE s.y - p[2]) >= minSepPx

FarEnough(s, p, minSepPx) ==
  (s.x - p[1]) * (s.x - p[1]) + (s.y - p[2]) * (s.y - p[2])
    >= minSepPx * minSepPx

ShapeOk(shapes, p, minSepPx) ==
  \A k \in DOMAIN shapes : FarEnough(shapes[k], p, minSepPx)

InitShapes ==
  \E n \in NUM_COUNT_MIN .. NUM_COUNT_MAX, sep \in ShapeSeps :
    /\ st = [InitialState EXCEPT !.setSize = n, !.mode = "numerosity",
                                 !.numMinSepPx = sep, !.help = FALSE]
    /\ refs = [pc |-> "sample", shapes |-> <<>>, guard |-> 0,
               n |-> Max(NUM_COUNT_MIN, Min(NUM_COUNT_MAX, n)),
               minSepPx |-> sep]
    /\ timers = <<>>
    /\ kenv = Env(st)
    /\ store = EmptyStore
    /\ hist = InitialHist(MaxShapeRejects, 0)

\* an iteration of the while loop whose point is far enough from every
\* shape placed so far
ShapePlace ==
  /\ refs.pc = "sample"
  /\ Len(refs.shapes) < refs.n /\ refs.guard < NUM_GUARD
  /\ \E p \in ShapePoints :
       /\ ShapeOk(refs.shapes, p, refs.minSepPx)
       /\ refs' = [refs EXCEPT !.shapes = Append(@, Sampled(p)),
                               !.guard = @ + 1]
  /\ hist' = hist
  /\ GenFrame

\* iterations of the while loop whose points are too close to a shape: one,
\* or all that the guard leaves
ShapeReject ==
  /\ refs.pc = "sample"
  /\ Len(refs.shapes) < refs.n /\ refs.guard < NUM_GUARD
  /\ refs.shapes # <<>> /\ refs.minSepPx > 0
  /\ \/ /\ hist.left > 0
        /\ refs' = [refs EXCEPT !.guard = @ + 1]
        /\ hist' = [hist EXCEPT !.left = @ - 1]
     \/ /\ refs' = [refs EXCEPT !.guard = NUM_GUARD]
        /\ hist' = [hist EXCEPT !.exhausted = "guard"]
  /\ GenFrame

\* the while loop is left
ShapeLoopExit ==
  /\ refs.pc = "sample"
  /\ ~(Len(refs.shapes) < refs.n /\ refs.guard < NUM_GUARD)
  /\ refs' = [refs EXCEPT !.pc = "pad"]
  /\ hist' = hist
  /\ GenFrame

\* an iteration of the fallback loop
ShapePad ==
  /\ refs.pc = "pad"
  /\ Len(refs.shapes) < refs.n
  /\ refs' = [refs EXCEPT !.shapes = Append(@, Ring(Len(@)))]
  /\ hist' = hist
  /\ GenFrame

ShapeReturn ==
  /\ refs.pc = "pad"
  /\ ~(Len(refs.shapes) < refs.n)
  /\ refs' = [refs EXCEPT !.pc = "done"]
  /\ hist' = hist
  /\ GenFrame

NextShapes ==
  \/ ShapePlace
  \/ ShapeReject
  \/ ShapeLoopExit
  \/ ShapePad
  \/ ShapeReturn

SpecShapes == InitShapes /\ [][NextShapes]_vars

(* ------------------------------ Claims ------------------------------- *)
\* a step in which finishTrial ran
Scored == hist'.nScored > hist.nScored

\* C1: each trial is scored exactly once: the trial index and the points
\* change only by scoring a trial whose response window was opened and which
\* has not been scored yet; a further response or timer callback before the
\* next test phase scores nothing.
C1_ScoredOnce ==
  [][(Scored \/ st'.trial # st.trial \/ st'.points # st.points)
       => hist.awaiting]_vars

\* C2: when a trial is scored the point total grows by exactly 15 for a
\* correct response with reaction time <= 600 ms, by exactly 10 for a slower
\* correct response and by 0 for an incorrect or timed-out trial.
C2_PointsAwarded ==
  [][Scored =>
       st'.points - st.points =
         IF hist'.correct THEN (IF hist'.rt <= 600 THEN 15 ELSE 10) ELSE 0]_vars

\* a correct response exactly 600 ms into the window earned 15 points
C2_Witness ==
  /\ hist.runMode # "none" /\ hist.correct /\ ~hist.byTimeout
  /\ hist.rt = 600 /\ st.points = 15

\* C3: across trial completions, pauses, help toggles and mode switches the
\* point total never decreases, and it changes only in a step that scores a
\* trial correct.
C3_PointsMonotone ==
  [][/\ st'.points >= st.points
     /\ st'.points # st.points => (Scored /\ hist'.correct)]_vars

\* a trial was scored correct after another event (a pause, a help toggle,
\* a mode switch or an earlier trial) and the total stands above zero
C3_Witness ==
  /\ hist.runMode # "none" /\ hist.correct
  /\ hist.left = MaxEvents - 2 /\ st.points > 0

StairModes == {"orientation", "color", "saccade"}

\* C4: in orientation, color and saccade modes the set size changes only by
\* the per-trial staircase: a trial scored correct as the third consecutive
\* correct one raises it by 1 (never above 10) and resets the streak, a trial
\* scored incorrect lowers it by 1 (never below 2) and resets the streak, and
\* every other step leaves it unchanged.
C4_Staircase ==
  [][(st.mode \in StairModes /\ st'.mode = st.mode) =>
       IF ~Scored THEN st'.setSize = st.setSize
       ELSE IF hist'.correct
       THEN IF refs.correctStreakRef + 1 >= 3
            THEN /\ st'.setSize = IF st.setSize < 10 THEN st.setSize + 1
                                  ELSE st.setSize
                 /\ refs'.correctStreakRef = 0
            ELSE st'.setSize = st.setSize
       ELSE /\ st'.setSize = IF st.setSize > 2 THEN st.setSize - 1
                             ELSE st.setSize
            /\ refs'.correctStreakRef = 0]_vars

\* C5: a trial that times out is scored incorrect with reaction time 2500 ms
\* and no points, and under the per-trial staircase the set size goes down
\* by 1 unless it is at the floor 2; a timeout never raises it.
C5_Timeout ==
  [][(Scored /\ hist'.byTimeout) =>
       /\ ~hist'.correct
       /\ hist'.rt = 2500
       /\ st'.points = st.points
       /\ hist'.runMode \in StairModes =>
            /\ st'.setSize = IF st.setSize > 2 THEN st.setSize - 1
                              ELSE st.setSize
            /\ st'.setSize <= st.setSize]_vars

\* C6: in spatial-frequency mode (the mode selected and the mode the trial
\* was started in) the set size changes only in the step that closes a block
\* of 20 trials: by +2 (never above 7) when at least 90% of the block was
\* correct, by -1 (never below 1) otherwise, and the result lies in 1..7.
C6_SpatialBlockRule ==
  [][(st.mode = "spatial" /\ st'.mode = "spatial"
      /\ hist.genMode = "spatial" /\ st'.setSize # st.setSize) =>
       /\ st.barTotal = 20 /\ st'.barTotal = 0
       /\ st'.setSize = IF 10 * st.barCorrect >= 9 * 20
                         THEN Min(7, st.setSize + 2)
                         ELSE Max(1, st.setSize - 1)
       /\ st'.setSize \in 1..7]_vars

\* C7: in the orientation task the set size is adapted every 20 trials and
\* only then: by +2 (maximum 10) when the block accuracy is at least 90%, by
\* -1 (minimum 1) otherwise.
C7_OrientationBlockRule ==
  [][(st.mode = "orientation" /\ st'.mode = "orientation"
      /\ st'.setSize # st.setSize) =>
       /\ st.barTotal = 20 /\ st'.barTotal = 0
       /\ st'.setSize = IF 10 * st.barCorrect >= 9 * 20
                         THEN Min(10, st.setSize + 2)
                         ELSE Max(1, st.setSize - 1)]_vars

C9_ItemsInBounds ==
  hist.genMode # "none" =>
    /\ hist.genMode \in StairModes => refs.posLen \in 2..10
    /\ (hist.genMode = "spatial" /\ hist.blockRuled) => refs.posLen \in 1..7
    /\ (hist.genMode = "numerosity" /\ hist.genSub = "enumerate") =>
         refs.numTargetCountRef \in 4..10

\* C10: when the session was paused during a response window, the window
\* still lasts 2500 ms of unpaused time: a resume in it leaves a timeout
\* pending for the rest of the 2500 ms, the timeout scores the trial after
\* exactly 2500 ms of unpaused time, and a response is scored with the
\* unpaused time as its reaction time.
C10_PauseResume ==
  [][/\ (hist.pausedInTest /\ hist.awaiting /\ st.paused /\ ~st'.paused) =>
          \E i \in DOMAIN timers' :
            /\ timers'[i].cb = "timeout"
            /\ timers'[i].rem = 2500 - hist.winElapsed
     /\ (hist.pausedInTest /\ hist.awaiting /\ Scored) =>
          IF hist'.byTimeout THEN hist.winElapsed = 2500
          ELSE hist'.rt = hist.winElapsed]_vars

\* a step that handled a response key or button
RespStep == hist'.left < hist.left /\ hist'.input = "resp"

\* a step that handled a key while the help overlay was shown
HelpKeyStep == st.help /\ ~st'.help

\* the session values, the difficulty parameters, the phase and the pending
\* timers are left as they are
SessionFrame ==
  /\ st'.points = st.points /\ st'.setSize = st.setSize
  /\ st'.trial = st.trial
  /\ st'.barTotal = st.barTotal /\ st'.barCorrect = st.barCorrect
  /\ st'.numExposureMs = st.numExposureMs
  /\ st'.numMinSepPx = st.numMinSepPx
  /\ st'.numSimilarity01 = st.numSimilarity01
  /\ st'.numAnchorSetSize = st.numAnchorSetSize
  /\ st'.numCompareDelta = st.numCompareDelta

InputFrame == SessionFrame /\ st'.phase = st.phase /\ timers' = timers

\* C11 as stated: a response key or button handled while the phase is not
\* test, or the session is paused, or the help overlay is shown (any key
\* closes the overlay, the response keys included) changes no session value,
\* no difficulty parameter and not the phase, and cancels or schedules no
\* timer.
C11_RejectedInputAsStated ==
  [][((RespStep /\ (st.phase # "test" \/ st.paused \/ st.help))
      \/ HelpKeyStep) => InputFrame]_vars

\* C11 as amended: the same, except that a key pressed while the help
\* overlay is shown closes the overlay, which starts the first trial when
\* the phase is idle; in any other phase it changes neither the phase nor a
\* timer.
C11_RejectedInput ==
  [][/\ (RespStep /\ (st.phase # "test" \/ st.paused \/ st.help))
          => (InputFrame /\ st'.help = st.help /\ st'.paused = st.paused)
     /\ HelpKeyStep =>
          /\ SessionFrame
          /\ st.phase # "idle" => (st'.phase = st.phase /\ timers' = timers)
          /\ st.phase = "idle" =>
               (st'.phase = "fix" /\ Len(timers') = Len(timers) + 1)]_vars

\* a response key or button was handled during a pause in the test phase
\* and scored nothing
C11_Witness ==
  /\ hist.input = "resp" /\ hist.nScored = 0
  /\ st.paused /\ st.phase = "test" /\ hist.awaiting

\* the answer "right" (different, B larger) or "left" (same, A larger)
\* agrees with a flag
ChoiceMatches(choice, flag) ==
  (choice = "right" /\ flag) \/ (choice = "left" /\ ~flag)

HighestMet(p) ==
  LET met == {i \in DOMAIN RANKS : p >= RANKS[i][2]}
  IN RANKS[CHOOSE i \in met : \A j \in met : RANKS[j][2] <= RANKS[i][2]][1]

\* C13: the rank of a total is the name of the highest-threshold entry it
\* meets or exceeds (Beginner 0, Novice 200, Competent 600, Proficient 1200,
\* Expert 2200); a trial completion emits a rank-up notification exactly when
\* the rank after the award differs from the rank before it, and a trial
\* gets at most one.
C13_RankUp ==
  [][Scored =>
       /\ rankFor(st'.points) = HighestMet(st'.points)
       /\ rankFor(0) = "Beginner" /\ rankFor(199) = "Beginner"
       /\ rankFor(200) = "Novice" /\ rankFor(599) = "Novice"
       /\ rankFor(600) = "Competent" /\ rankFor(1199) = "Competent"
       /\ rankFor(1200) = "Proficient" /\ rankFor(2199) = "Proficient"
       /\ rankFor(2200) = "Expert"
       /\ hist'.rankUps - hist.rankUps =
            IF rankFor(st'.points) # rankFor(st.points) THEN 1 ELSE 0
       /\ hist'.rankUps <= 1]_vars

\* a correct answer took the total from 190 to 200 and the Novice rank-up
\* was emitted
C13_Witness ==
  /\ hist.rankUps = 1 /\ hist.correct /\ st.points = 200
  /\ rankFor(st.points) = "Novice"

\* a step in which startTrial ran: one more pending fixation timer
FixTimers(tm) == Cardinality({i \in DOMAIN tm : tm[i].cb = "preblank"})
Started == FixTimers(timers') > FixTimers(timers)

Abs(n) == IF n < 0 THEN -n ELSE n

\* C14: whenever a numerosity-compare trial starts, both counts lie in
\* 4..10 and they differ by exactly the session's compare-delta of that
\* moment.
C14_CompareCounts ==
  [][(Started /\ hist'.genMode = "numerosity" /\ hist'.genSub = "compare")
       => /\ refs'.numCountARef \in NUM_COUNT_MIN..NUM_COUNT_MAX
          /\ refs'.numCountBRef \in NUM_COUNT_MIN..NUM_COUNT_MAX
          /\ Abs(refs'.numCountARef - refs'.numCountBRef)
               = st'.numCompareDelta]_vars

\* C15: when an enumerate trial starts after a scored enumerate trial, the
\* number of shapes it shows is the session's anchor of that moment plus a
\* jitter of -1, 0 or +1, clamped to 4..10.
C15_NextCount ==
  [][(/\ Started
      /\ hist.genMode = "numerosity" /\ hist.genSub = "enumerate"
      /\ hist.runMode = "numerosity"
      /\ hist'.genMode = "numerosity" /\ hist'.genSub = "enumerate")
       => \E j \in {-1, 0, 1} :
            refs'.numTargetCountRef =
              Max(4, Min(10, st'.numAnchorSetSize + j))]_vars

\* the k-th smallest reaction time of a window, by counting
KthRt(w, k) ==
  CHOOSE v \in {w[i].rt : i \in DOMAIN w} :
    /\ Cardinality({i \in DOMAIN w : w[i].rt < v}) < k
    /\ Cardinality({i \in DOMAIN w : w[i].rt <= v}) >= k

\* twice the median reaction time of a non-empty window
TwiceMedian(w) ==
  IF Len(w) % 2 = 1 THEN 2 * KthRt(w, (Len(w) + 1) \div 2)
  ELSE KthRt(w, Len(w) \div 2) + KthRt(w, Len(w) \div 2 + 1)

Hits(w) == Cardinality({i \in DOMAIN w : w[i].ok})

\* accuracy >= 0.75 and median <= 900 ms
WindowGood(w) == 100 * Hits(w) >= 75 * Len(w) /\ TwiceMedian(w) <= 1800
\* accuracy < 0.65 or median > 1150 ms
WindowBad(w) == 100 * Hits(w) < 65 * Len(w) \/ TwiceMedian(w) > 2300

\* the five difficulty parameters (similarity in hundredths)
NumParams(s) ==
  <<s.numExposureMs, s.numMinSepPx, s.numSimilarity01, s.numAnchorSetSize,
    s.numCompareDelta>>

\* C16: a trial completion in numerosity mode leaves the new outcome last in
\* the window and applies exactly the update the window calls for: harder
\* (exposure -20 down to 120, separation -2 down to 18, similarity +0.06 up
\* to 1, anchor +1 up to 9, in compare sub-mode delta -1 down to 1) when
\* accuracy >= 0.75 and median <= 900 ms; easier (exposure +20 up to 350,
\* separation +2 up to 48, similarity -0.06 down to 0, anchor -1 down to 5,
\* in compare sub-mode delta +1 up to 3) when accuracy < 0.65 or median >
\* 1150 ms; no change otherwise.
C16_Controller ==
  [][(Scored /\ hist'.runMode = "numerosity") =>
       LET w == refs'.recentOutcomes
           cmp == st.numerositySubmode = "compare"
       IN /\ w # <<>>
          /\ w[Len(w)] = [ok |-> hist'.correct, rt |-> hist'.rt]
          /\ NumParams(st') =
               IF WindowGood(w)
               THEN <<Max(120, st.numExposureMs - 20),
                      Max(18, st.numMinSepPx - 2),
                      Min(100, st.numSimilarity01 + 6),
                      Min(9, st.numAnchorSetSize + 1),
                      IF cmp THEN Max(1, st.numCompareDelta - 1)
                      ELSE st.numCompareDelta>>
               ELSE IF WindowBad(w)
               THEN <<Min(350, st.numExposureMs + 20),
                      Min(48, st.numMinSepPx + 2),
                      Max(0, st.numSimilarity01 - 6),
                      Max(5, st.numAnchorSetSize - 1),
                      IF cmp THEN Min(3, st.numCompareDelta + 1)
                      ELSE st.numCompareDelta>>
               ELSE NumParams(st)]_vars

\* the phase that may follow phase ph within a trial generated in mode m
\* and sub-mode sub, as the phase order is stated
StatedSuccessor(ph, m, sub) ==
  LET compare == m = "numerosity" /\ sub = "compare"
  IN CASE ph = "idle" -> "fix"
       [] ph = "fix" -> "preblank"
       [] ph = "preblank" -> IF compare THEN "memA" ELSE "mem"
       [] ph = "memA" -> "isiA"
       [] ph = "isiA" -> "memB"
       [] ph = "memB" -> "isiB"
       [] ph = "isiB" -> "isi"
       [] ph = "mem" -> IF m = "saccade" THEN "saccade" ELSE "isi"
       [] ph = "saccade" -> "isi"
       [] ph = "isi" -> "test"
       [] ph = "test" -> "fix"

\* C17: every change of phase goes to the next phase of the order fix,
\* preblank, the memory branch of the trial's mode (mem; memA, isiA, memB,
\* isiB in numerosity-compare; mem, saccade in saccade mode), isi, test; in
\* particular the test phase is entered from isi only, and the next trial's
\* fix phase follows the test phase.
C17_PhaseOrder ==
  [][st'.phase # st.phase =>
       st'.phase = StatedSuccessor(st.phase, hist'.genMode, hist'.genSub)]_vars

\* the stated duration of a phase before the test phase, for a trial
\* generated in mode m while the session's exposure time is exposure; 0
\* where no duration is stated
StatedDuration(ph, m, sub, exposure) ==
  CASE ph \in {"fix", "preblank"} -> 500
    [] ph = "mem" ->
         IF m # "numerosity" THEN 500
         ELSE IF sub = "enumerate" THEN exposure ELSE 0
    [] ph = "saccade" -> 350
    [] ph = "isi" ->
         IF m = "numerosity" /\ sub = "compare" THEN 0 ELSE 800
    [] OTHER -> 0

\* C18: a phase that has a stated duration is left exactly that long after
\* it was entered: fix and preblank after 500 ms, mem after 500 ms outside
\* numerosity mode and after the current exposure time in numerosity-
\* enumerate, the saccade target after 350 ms, isi after 800 ms in every
\* mode but numerosity-compare.
C18_Durations ==
  [][(/\ st'.phase # st.phase
      /\ StatedDuration(st.phase, hist.genMode, hist.genSub,
                         st.numExposureMs) # 0)
       => hist.phaseElapsed =
            StatedDuration(st.phase, hist.genMode, hist.genSub,
                           st.numExposureMs)]_vars

\* C19: once the load effect ran, whatever storage held, the set size is
\* within 1..10, points, trial count and block counters are non-negative
\* with the block total below 20, the exposure is within 120..350, the
\* minimum separation within 18..48, the similarity within 0..1, the anchor
\* within 5..9 and the compare-delta within 1..3.
C19_LoadValidated ==
  hist.input = "load" =>
    /\ st.setSize \in 1..SET_MAX
    /\ st.points >= 0 /\ st.trial >= 0 /\ st.barCorrect >= 0
    /\ st.barTotal \in 0..(BLOCK_SIZE - 1)
    /\ st.numExposureMs \in 120..350
    /\ st.numMinSepPx \in 18..48
    /\ st.numSimilarity01 \in 0..100
    /\ st.numAnchorSetSize \in 5..9
    /\ st.numCompareDelta \in 1..3

\* the items the reset-stats command is to leave alone
KeptItems(sto) ==
  <<sto.mode, sto.blur_on, sto.numerosity_submode, sto.num_exposure_ms,
    sto.num_min_sep, sto.num_similarity01, sto.num_anchor_setsize,
    sto.num_compare_delta>>

ResetStep == hist'.left < hist.left /\ hist'.input = "reset"

\* C20: the reset-stats command, issued while the help overlay is not
\* shown, leaves points, trial count, set size and both block counters
\* persisted as zero, leaves the persisted mode, blur condition, sub-mode
\* and numerosity parameters as they were, and changes neither the phase
\* nor the pending timers.
C20_ResetStats ==
  [][ResetStep =>
       /\ ~st.help
       /\ getDataAsNum(store', "points") = 0 /\ store'.points # NoItem
       /\ getDataAsNum(store', "set_trial") = 0 /\ store'.set_trial # NoItem
       /\ getDataAsNum(store', "set_size") = 0 /\ store'.set_size # NoItem
       /\ getDataAsNum(store', "bar_total") = 0 /\ store'.bar_total # NoItem
       /\ getDataAsNum(store', "bar_correct") = 0
       /\ store'.bar_correct # NoItem
       /\ KeptItems(store') = KeptItems(store)
       /\ st'.phase = st.phase
       /\ timers' = timers]_vars

\* the command was issued in the middle of a trial of a session with
\* points; they are still shown, and persisted as zero
C20_Witness ==
  /\ hist.input = "reset" /\ st.points > 0 /\ st.barTotal > 0
  /\ store.points = Item(0) /\ store.bar_total = Item(0)
  /\ store.mode = Item(st.mode) /\ st.phase = "mem" /\ timers # <<>>

\* the session values that are persisted, as held by state s
PersistedFields(s) ==
  <<s.setSize, s.points, s.trial, s.barTotal, s.barCorrect, s.mode,
    s.blurOn, s.numerositySubmode, s.numExposureMs, s.numMinSepPx,
    s.numSimilarity01, s.numAnchorSetSize, s.numCompareDelta>>

\* C21: once an event that changes a persisted session value (a trial
\* completion, a mode switch, a sub-mode switch, a blur toggle) has been
\* processed, a reload restores the in-memory value of every persisted
\* field.
C21_RoundTrip ==
  [][PersistedFields(st') # PersistedFields(st)
       => PersistedFields(Load(store')) = PersistedFields(st')]_vars

\* C22: when a trial starts after a scored trial of the same mode, its
\* stimuli are generated from the session's difficulty parameters of that
\* moment: the set size gives the number of items (the number of shapes in
\* numerosity-enumerate), the anchor and the compare-delta give the two
\* counts of a compare trial.
C22_FreshParameters ==
  [][(Started /\ hist.runMode # "none" /\ hist'.genMode = hist.runMode) =>
       IF hist'.genMode # "numerosity"
       THEN refs'.posLen = st'.setSize
       ELSE IF hist'.genSub = "enumerate"
       THEN refs'.numTargetCountRef = Max(4, Min(10, st'.setSize))
       ELSE \E swap \in BOOLEAN :
              <<refs'.numCountARef, refs'.numCountBRef>> =
                CompareCounts(st'.numAnchorSetSize, st'.numCompareDelta,
                              swap)]_vars

\* C23: at any moment at most one phase-driving timer is pending; in
\* particular no response-window timeout is scheduled, at test onset or on
\* resume, while an earlier response-window timeout is still pending.
C23_OneTimeout ==
  Cardinality({i \in DOMAIN timers : timers[i].cb = "timeout"}) <= 1

\* C24: while the session stays paused the phase does not change and no
\* trial is scored.
C24_PausedFrozen ==
  [][(st.paused /\ st'.paused) => (st'.phase = st.phase /\ ~Scored)]_vars

\* C25: the phase is idle at startup, and a step that scores a trial leaves
\* the phase idle.
C25_IdleAfterScoring ==
  [][Scored => st'.phase = "idle"]_vars

\* C26: after the component was unmounted no timer callback runs.
C26_NoLateCallback == hist.unmounted => hist.input # "late"

\* C27: the continuation of a scored trial (the only timer pending, so the
\* trial was scored once) resets both block counters exactly when that
\* trial was the 20th of its block and leaves them alone otherwise, so that
\* the block total is below 20 once it has run.
C27_BlockCounters ==
  [][(Started /\ hist.runMode # "none" /\ Len(timers) = 1) =>
       /\ st'.barTotal < BLOCK_SIZE
       /\ IF st.barTotal = BLOCK_SIZE
          THEN st'.barTotal = 0 /\ st'.barCorrect = 0
          ELSE st'.barTotal = st.barTotal
               /\ st'.barCorrect = st.barCorrect]_vars

\* C28: the reset-stats command leaves the session's points, trial index and
\* both block counters at zero and the set size at its default of 1.
C28_ResetSession ==
  [][ResetStep =>
       /\ st'.points = 0 /\ st'.trial = 0
       /\ st'.barTotal = 0 /\ st'.barCorrect = 0
       /\ st'.setSize = InitialState.setSize]_vars

\* C29: once startTrial has built the arrays of a trial with set size n in
\* 2..10 (no generator iteration having given up while a passing value
\* existed), the memory orientation array and the test array each hold n
\* items and the probe index is an index of both.
C29_ArraySizes ==
  (refs.pc = "done" /\ refs.gen = "orient" /\ hist.exhausted # "chance") =>
     /\ Len(refs.memOrientsRef) = st.setSize
     /\ Len(refs.testOrientsRef) = st.setSize
     /\ refs.probeIdxRef < Len(refs.memOrientsRef)
     /\ refs.probeIdxRef < Len(refs.testOrientsRef)

\* all items of arr are integers of 0 .. range - 1, any two of them at
\* circular distance sep or more
Separated(arr, range, sep) ==
  /\ \A k \in DOMAIN arr : arr[k] \in 0 .. range - 1
  /\ \A j \in DOMAIN arr : \A k \in DOMAIN arr :
       j # k => Min(Abs(arr[j] - arr[k]), range - Abs(arr[j] - arr[k])) >= sep

\* C30: an array returned by the orientation generator holds integers of
\* [0,180) at pairwise circular distance 20 or more, and one returned by
\* the hue generator integers of [0,360) at pairwise circular distance 30 or
\* more, also when iterations ran out of tries.
C30_Separation ==
  refs.pc # "loop" =>
     IF refs.gen = "orient" THEN Separated(refs.arr, 180, 20)
     ELSE Separated(refs.arr, 360, 30)

\* returned with fewer items than asked for, two of them across the
\* wrap-around, after iterations in which no value could pass the test
C30_Witness ==
  /\ refs.pc # "loop" /\ refs.gen = "orient"
  /\ hist.exhausted = "certain"
  /\ Len(refs.arr) < st.setSize
  /\ \E j \in DOMAIN refs.arr : \E k \in DOMAIN refs.arr :
       refs.arr[j] - refs.arr[k] > 90

\* C31: the array returned by the frequency generator for n in 1..10 has n
\* values, all in [1.0, 6.0] and pairwise at relative separation 0.12 or
\* more, also when an item got the fallback value because no frequency of
\* the range could pass the test.
C31_FreqSeparation ==
  (refs.pc # "loop" /\ hist.exhausted # "chance") =>
     /\ Len(refs.arr) = st.setSize
     /\ \A k \in DOMAIN refs.arr :
          refs.arr[k] >= FREQ_MIN /\ refs.arr[k] <= FREQ_MAX
     /\ \A j \in DOMAIN refs.arr : \A k \in DOMAIN refs.arr :
          j # k =>
            100 * Abs(refs.arr[j] - refs.arr[k]) * 2
              >= 12 * (refs.arr[j] + refs.arr[k])

\* C32: the shape generator returns exactly n shapes, the shapes placed by
\* sampling are pairwise at Euclidean distance of the minimum separation or
\* more, and a shape is placed on the ring only when the 5000 attempts were
\* used up.
C32_Shapes ==
  refs.pc = "done" =>
     /\ Len(refs.shapes) = refs.n
     /\ \A j \in DOMAIN refs.shapes : \A k \in DOMAIN refs.shapes :
          (j # k /\ refs.shapes[j].via = "sample"
                 /\ refs.shapes[k].via = "sample") =>
            (refs.shapes[j].x - refs.shapes[k].x)
                * (refs.shapes[j].x - refs.shapes[k].x)
              + (refs.shapes[j].y - refs.shapes[k].y)
                * (refs.shapes[j].y - refs.shapes[k].y)
              >= refs.minSepPx * refs.minSepPx
     /\ (\E k \in DOMAIN refs.shapes : refs.shapes[k].via = "ring")
          => refs.guard = 5000

\* returned with sampled shapes on a diagonal of the grid and padded from
\* the ring after the attempts were used up
C32_Witness ==
  /\ refs.pc = "done" /\ refs.guard = 5000
  /\ \E j \in DOMAIN refs.shapes : \E k \in DOMAIN refs.shapes :
       /\ refs.shapes[j].via = "sample" /\ refs.shapes[k].via = "sample"
       /\ refs.shapes[j].x # refs.shapes[k].x
       /\ refs.shapes[j].y # refs.shapes[k].y
  /\ \E k \in DOMAIN refs.shapes : refs.shapes[k].via = "ring"

\* C33: in a spatial-frequency trial the test array is the memory array
\* when the change flag is false; when it is true the two differ at the
\* probe index and nowhere else, the test value there being the memory
\* value times 0.75 or 1.25, clamped into [1.0, 6.0].
C33_ChangeInjection ==
  (refs.pc = "done" /\ hist.exhausted # "chance") =>
     LET mem == refs.memFreqsRef
         test == refs.testFreqsRef
         p == refs.probeIdxRef + 1
     IN  IF ~refs.changeRef THEN test = mem
         ELSE /\ Len(test) = Len(mem) /\ p \in DOMAIN mem
              /\ \A k \in DOMAIN mem : (test[k] # mem[k]) <=> (k = p)
              /\ \/ 4 * test[p] = Max(4 * FREQ_MIN, Min(4 * FREQ_MAX, 3 * mem[p]))
                 \/ 4 * test[p] = Max(4 * FREQ_MIN, Min(4 * FREQ_MAX, 5 * mem[p]))

\* a click on the canvas that the handler did not turn away
CanvasStep == hist'.left < hist.left /\ hist'.input = "canvas"

\* C34: a canvas click in the saccade phase of saccade mode counts a hit
\* only if it is on the visible target and no hit was counted for this
\* presentation yet, and then marks the presentation as hit; no click, hit
\* or miss, changes the correctness or the number of scored trials, the
\* points, the trial index, the streak or the set size.
C34_SaccadeClick ==
  [][CanvasStep =>
       /\ st'.sacHits \in {st.sacHits, st.sacHits + 1}
       /\ st'.sacHits = st.sacHits + 1
            => (refs.sacTarget /\ ~refs.sacHitRef /\ refs'.sacHitRef)
       /\ refs.sacHitRef => st'.sacHits = st.sacHits
       /\ hist'.correct = hist.correct /\ hist'.nScored = hist.nScored
       /\ st'.points = st.points /\ st'.trial = st.trial
       /\ refs'.correctStreakRef = refs.correctStreakRef
       /\ st'.setSize = st.setSize /\ st'.phase = st.phase
       /\ timers' = timers]_vars

\* a second click on the target of a presentation already hit: not counted
C34_Witness ==
  /\ hist.input = "canvas" /\ hist.left = 0
  /\ refs.sacHitRef /\ refs.sacTarget
  /\ st.sacHits = 1 /\ st.sacTotal = 1 /\ st.phase = "saccade"

\* C35: the streak counter kept during spatial-frequency trials is dead
\* state.  The program and the variant that leaves the counter untouched in
\* spatial mode agree on everything but the counter up to the first trial
\* whose set-size update differs, so their set-size trajectories are equal
\* exactly if every trial scored under the 3-up/1-down rule updates the set
\* size as that rule does with the variant's counter.  Stated for sessions
\* in which every trial was scored once.
C35_StreakDead ==
  [][(Scored /\ hist'.runMode \in {"orientation", "color", "saccade"}
             /\ ~hist'.rescored) =>
       st'.setSize
         = Staircase(st.setSize, hist.vStreak, hist'.correct).setSize]_vars

\* the continuation of a scored trial is pending
ContPending == \E i \in DOMAIN timers : timers[i].cb = "cont"

\* C36: a trial that has started reaches the test phase, a trial whose
\* response window was opened is scored, and a scored trial is followed by
\* the start of a new one, as long as explored events are left to score it.
C36_Liveness ==
  /\ (st.phase = "fix") ~> (st.phase = "test" \/ hist.left = 0)
  /\ hist.awaiting ~> (~hist.awaiting \/ hist.left = 0)
  /\ ContPending ~> (st.phase = "fix" \/ hist.left = 0)

\* a trial paused in its response window, resumed, and scored by the
\* timeout that the resume set
C36_Witness ==
  /\ hist.nScored >= 1 /\ hist.byTimeout /\ hist.pausedInTest
  /\ ~st.paused /\ ContPending

\* C37: in a session whose numerosity parameters started from their
\* defaults, the exposure stays in 120..350, the minimum separation in
\* 18..48, the similarity in 0..1 (kept in hundredths), the anchor in 5..9
\* and the compare delta in 1..3.
C37_ParameterBands ==
  /\ st.numExposureMs >= 120 /\ st.numExposureMs <= 350
  /\ st.numMinSepPx >= 18 /\ st.numMinSepPx <= 48
  /\ st.numSimilarity01 >= 0 /\ st.numSimilarity01 <= 100
  /\ st.numAnchorSetSize >= 5 /\ st.numAnchorSetSize <= 9
  /\ st.numCompareDelta >= 1 /\ st.numCompareDelta <= 3

\* a fast correct compare answer with every parameter at its hard limit:
\* the controller tightens and the limits hold
C37_Witness ==
  /\ hist.nScored = 1 /\ hist.runMode = "numerosity"
  /\ hist.correct /\ hist.rt <= 900
  /\ st.numExposureMs = 120 /\ st.numMinSepPx = 18
  /\ st.numSimilarity01 = 100 /\ st.numAnchorSetSize = 9
  /\ st.numCompareDelta = 1

\* C38: a compare trial starts with two different counts and with bLarger
\* set exactly when B holds more shapes, and a left or right answer to it is
\* scored correct exactly when it names the array that holds more shapes
\* (left: A, right: B); for every anchor and compare delta that the load
\* effect accepts.
C38_CompareTrial ==
  [][/\ (Started /\ hist'.genMode = "numerosity" /\ hist'.genSub = "compare")
        => /\ refs'.numCountARef # refs'.numCountBRef
           /\ refs'.numBLargerRef
                <=> refs'.numCountBRef > refs'.numCountARef
     /\ (Scored /\ ~hist'.byTimeout /\ hist.genMode = "numerosity"
                /\ hist.genSub = "compare")
        => (hist'.correct <=>
              \/ hist'.ansChoice = "left"
                   /\ refs.numCountARef > refs.numCountBRef
              \/ hist'.ansChoice = "right"
                   /\ refs.numCountBRef > refs.numCountARef)]_vars

\* the values probeIdxRef can hold for the trial whose stimuli are in the
\* refs: 0 for a numerosity trial, floor(random * setSize) otherwise
ProbeIdxValues(r, genMode) ==
  IF genMode = "numerosity" \/ r.posLen = 0 THEN {0} ELSE 0 .. r.posLen - 1

\* C39: whenever the phase is test and the current mode is not numerosity,
\* the positions array is longer than the probe index, also after the mode was
\* switched during a trial generated under another mode.
C39_ProbeInRange ==
  (st.phase = "test" /\ st.mode # "numerosity" /\ hist.genMode # "none")
    => \A probeIdx \in ProbeIdxValues(refs, hist.genMode) :
         refs.posLen > probeIdx

\* C40: the numerosity outcome window never holds more than 16 entries; a
\* trial completed while the mode is numerosity appends its outcome (the
\* oldest entry leaves first once 16 are held), and a trial completed while
\* another mode is selected, like every step that scores no trial (a sub-mode
\* switch among them), leaves the window unchanged. Trials that are scored a
\* second time are left out.
C40_OutcomeWindow ==
  [][/\ Len(refs'.recentOutcomes) <= windowSize
     /\ (Scored /\ ~hist'.rescored) =>
          refs'.recentOutcomes =
            IF st.mode = "numerosity"
            THEN PushOutcome(refs.recentOutcomes, hist'.correct, hist'.rt)
            ELSE refs.recentOutcomes
     /\ ~Scored => refs'.recentOutcomes = refs.recentOutcomes]_vars

=============================================================================
